---------------------------- MODULE Spec2Model ----------------------------
(***************************************************************************)
(* Model of scripts/compile_manuscript.py and scripts/word_count.py.       *)
(*                                                                         *)
(* A Python str is modelled as a sequence of one-character strings, so     *)
(* that splitting, stripping, joining and comparing are computed and not   *)
(* assumed.  "\n" is the line terminator, BOM stands for U+FEFF.           *)
(***************************************************************************)
EXTENDS Integers, Sequences, FiniteSets, TLC

(***************************************************************************)
(* Bounds of the model.                                                    *)
(***************************************************************************)
MaxLines == 3
MaxChars == 4
MaxChapters == 2
MaxScenes == 2

(***************************************************************************)
(* Characters and str methods.                                             *)
(***************************************************************************)
BOM == "BOM"
NL == "\n"
CR == "\r"

\* The value None where a str is expected (no str holds this element).
None == <<"None">>

RECURSIVE LStripSet(_, _)
\* s.lstrip(chars)
LStripSet(s, chars) ==
    IF s # <<>> /\ Head(s) \in chars THEN LStripSet(Tail(s), chars) ELSE s

RECURSIVE RStripSet(_, _)
\* s.rstrip(chars)
RStripSet(s, chars) ==
    IF s # <<>> /\ s[Len(s)] \in chars
    THEN RStripSet(SubSeq(s, 1, Len(s) - 1), chars)
    ELSE s

\* str.strip() / lstrip() / rstrip() without argument remove these.
WhiteSpace == {" ", NL, CR, "\t"}

\* s.lstrip()
LStrip(s) == LStripSet(s, WhiteSpace)

\* s.rstrip()
RStrip(s) == RStripSet(s, WhiteSpace)

\* s.strip()
Strip(s) == LStrip(RStrip(s))

\* c in s
Contains(s, c) == \E n \in 1..Len(s) : s[n] = c

\* s.startswith(p)
StartsWith(s, p) == Len(s) >= Len(p) /\ SubSeq(s, 1, Len(p)) = p

\* s.endswith(p)
EndsWith(s, p) == Len(s) >= Len(p) /\ SubSeq(s, Len(s) - Len(p) + 1, Len(s)) = p

\* s[n:] with a 0-based n >= 0
From(s, n) == SubSeq(s, n + 1, Len(s))

\* index (1-based) of the first occurrence of c in s; c occurs in s
FirstIndex(s, c) == CHOOSE n \in 1..Len(s) : s[n] = c /\ \A m \in 1..(n - 1) : s[m] # c

\* s.split(c, 1)[0] and [1], for a c that occurs in s
SplitHead(s, c) == SubSeq(s, 1, FirstIndex(s, c) - 1)
SplitTail(s, c) == SubSeq(s, FirstIndex(s, c) + 1, Len(s))

RECURSIVE Join(_)
\* "".join(parts)
Join(parts) == IF parts = <<>> THEN <<>> ELSE Head(parts) \o Join(Tail(parts))

RECURSIVE JoinWith(_, _)
\* sep.join(parts)
JoinWith(sep, parts) ==
    IF parts = <<>> THEN <<>>
    ELSE IF Len(parts) = 1 THEN parts[1]
    ELSE parts[1] \o sep \o JoinWith(sep, Tail(parts))

RECURSIVE SplitLines(_)
\* s.splitlines(True): the lines of s, each with its terminator
SplitLines(s) ==
    IF s = <<>> THEN <<>>
    ELSE IF Contains(s, NL)
         THEN <<SubSeq(s, 1, FirstIndex(s, NL))>> \o SplitLines(From(s, FirstIndex(s, NL)))
         ELSE <<s>>

\* indentation(s) of parse_front_matter: the number of leading spaces
indentation(s) == Len(s) - Len(LStripSet(s, {" "}))

(***************************************************************************)
(* State.  parse_front_matter is modelled statement by statement: pc is    *)
(* the loop the call is in, the other variables are its locals.            *)
(***************************************************************************)
VARIABLES
    text,          \* the argument of parse_front_matter
    pc,            \* "start", "main", "block", "look", "items", "done"
    yaml_lines,    \* the lines between the delimiters, terminators removed
    body,          \* the text after the closing delimiter
    i, j,          \* line indexes (0-based, as in the source)
    ind,           \* indentation of the line that holds the current key
    key, mode, base_indent, block_accum, list_accum, saw_list,
    data,          \* the dict being built
    result,        \* the returned pair, once pc = "done"
    \* count_words
    wpc,           \* "start", "counted"
    wfn,           \* the module whose count_words was called
    wtext,         \* the text of the file counted
    count,         \* the value returned
    \* compile_manuscript
    cpc,           \* "start", "chapters", "scenes", "header", "parsing", "compose", "done"
    tree,          \* the snapshot of the file system the run reads
    cfg,           \* the arguments of compile_manuscript
    scanned,       \* collect_structure has listed the root
    chapters,      \* the value of collect_structure
    ci, si,        \* the chapter and the scene the loops are at (0-based)
    block_parts, first_scene, chapter_blocks, manuscript_words,
    header_meta,   \* [absent, meta] as returned by parse_front_matter
    header_body,
    status,        \* the value returned, -1 while running
    out_file,      \* the output file: [exists, content]
    dir_created    \* the parent of the output path was created

pvars == <<text, pc, yaml_lines, body, i, j, ind, key, mode, base_indent,
           block_accum, list_accum, saw_list, data, result>>

wvars == <<wpc, wfn, wtext, count>>

cvars == <<cpc, tree, cfg, scanned, chapters, ci, si, block_parts, first_scene,
           chapter_blocks, manuscript_words, header_meta, header_body, status,
           out_file, dir_created>>

\* What parse_front_matter leaves alone
ovars == <<wvars, cvars>>

\* base_indent = None
NoIndent == -1

\* d[k] = v on a dict
Put(d, k, v) == [x \in (DOMAIN d) \cup {k} |-> IF x = k THEN v ELSE d[x]]

StrVal(s) == [t |-> "str", v |-> s]
ListVal(l) == [t |-> "list", v |-> l]

\* The data dict after commit_pending()
CommitData(d, k, m, b, l) ==
    IF k = None THEN d
    ELSE IF m = "block" THEN Put(d, k, StrVal(RStripSet(JoinWith(<<NL>>, b), {NL})))
    ELSE IF m = "list" THEN Put(d, k, ListVal(l))
    ELSE d

\* The value returned for (data or None, body)
Returned(d, b) == [absent |-> (DOMAIN d = {}), meta |-> d, body |-> b]

\* As EndIndex, with the search starting at the first line (range(0, ...))
EndIndexFromFirst(lines) ==
    IF \E n \in 1..Len(lines) : Strip(lines[n]) \in {<<"-", "-", "-">>, <<".", ".", ".">>}
    THEN CHOOSE n \in 1..Len(lines) :
            /\ Strip(lines[n]) \in {<<"-", "-", "-">>, <<".", ".", ".">>}
            /\ \A m \in 1..(n - 1) :
                  Strip(lines[m]) \notin {<<"-", "-", "-">>, <<".", ".", ".">>}
    ELSE 0

\* Index (1-based) of the first line after the first whose strip() is a
\* closing delimiter, 0 when there is none (end_index is None).
EndIndex(lines) ==
    IF \E n \in 2..Len(lines) : Strip(lines[n]) \in {<<"-", "-", "-">>, <<".", ".", ".">>}
    THEN CHOOSE n \in 2..Len(lines) :
            /\ Strip(lines[n]) \in {<<"-", "-", "-">>, <<".", ".", ".">>}
            /\ \A m \in 2..(n - 1) :
                  Strip(lines[m]) \notin {<<"-", "-", "-">>, <<".", ".", ".">>}
    ELSE 0

\* lines[0].lstrip("\ufeff").strip() == "---"
OpensFrontMatter(lines) ==
    lines # <<>> /\ Strip(LStripSet(lines[1], {BOM})) = <<"-", "-", "-">>

\* The current line of the main loop and of the look-ahead loops
Line(n) == yaml_lines[n + 1]

IsBlank(s) == Strip(s) = <<>>

(***************************************************************************)
(* The texts parse_front_matter is applied to: byte-order marks or none, a *)
(* first line, up to MaxLines lines of YamlPool, a closing line or none,   *)
(* and what follows it.  The lines are joined by the line terminator (a    *)
(* last line that is empty makes the text end with a terminator).          *)
(***************************************************************************)
FirstLines == { <<"-", "-", "-">>, <<" ", "-", "-", "-">>, <<"x">> }

YamlPool ==
    { <<"a", ":", " ", "|">>,
      <<"b", ":">>,
      <<" ", "-", " ", "x">>,
      <<" ", "c", ":", " ", "y">>,
      <<>> }

ClosingLines == { <<"-", "-", "-">>, <<" ", "-", "-", "-">>, <<".", ".", ".">> }

\* Nothing, a terminator, or a body that itself holds a delimiter line
Rests == { <<>>, << <<>> >>, << <<"B">>, <<"-", "-", "-">>, <<"y">> >> }

LineSeqs == UNION { [1..n -> YamlPool] : n \in 0..MaxLines }

Texts ==
    { bom \o JoinWith(<<NL>>, <<f>> \o ys \o cl \o rest) :
        bom \in {<<>>, <<BOM>>, <<BOM, BOM>>},
        f \in FirstLines,
        ys \in LineSeqs,
        cl \in {<<>>} \cup {<<c>> : c \in ClosingLines},
        rest \in Rests } \cup {<<>>}

(***************************************************************************)
(* parse_front_matter, lines 77-97: the early returns and the split into   *)
(* the metadata lines and the body.                                        *)
(***************************************************************************)
ParseBegin(t) ==
    /\ pc = "start"
    /\ LET lines == SplitLines(t)
           e == EndIndex(lines)
       IN /\ text' = t
          /\ IF t = <<>> \/ ~OpensFrontMatter(lines) \/ e = 0
             THEN /\ pc' = "done"
                  /\ result' = [absent |-> TRUE, meta |-> <<>>, body |-> t]
                  /\ UNCHANGED <<yaml_lines, body>>
             ELSE /\ pc' = "main"
                  /\ yaml_lines' = [n \in 1..(e - 2) |-> RStripSet(lines[n + 1], {NL, CR})]
                  /\ body' = Join(SubSeq(lines, e + 1, Len(lines)))
                  /\ UNCHANGED result
    /\ UNCHANGED <<i, j, ind, key, mode, base_indent, block_accum,
                   list_accum, saw_list, data>>

\* parse_front_matter called on a text
ParseText ==
    /\ pc = "start"
    /\ \E t \in Texts : ParseBegin(t)
    /\ UNCHANGED ovars

\* ':' in stripped and (ind == 0 or key is None)
IsNewKey(line) ==
    Contains(Strip(line), ":") /\ (indentation(line) = 0 \/ key = None)

\* v of "k, v = stripped.split(':', 1)" after v.lstrip()
ValueOf(line) == LStrip(SplitTail(Strip(line), ":"))

\* key of "k, v = stripped.split(':', 1)" after k.strip()
KeyOf(line) == Strip(SplitHead(Strip(line), ":"))

\* As NextLine, with the increment forgotten
NextLineStuck(n) == n

\* The index after "i += 1" in the branches of the main loop
NextLine(n) == n + 1

\* lines 125-130: a blank line
MainBlank ==
    /\ pc = "main" /\ i < Len(yaml_lines)
    /\ IsBlank(Line(i))
    /\ block_accum' = IF mode = "block" THEN Append(block_accum, <<>>) ELSE block_accum
    /\ i' = NextLine(i)
    /\ UNCHANGED <<text, pc, yaml_lines, body, j, ind, key, mode, base_indent,
                   list_accum, saw_list, data, result>>
    /\ UNCHANGED ovars

\* lines 133-143: "key: |" or "key: >" opens a block scalar
MainKeyBlock ==
    /\ pc = "main" /\ i < Len(yaml_lines)
    /\ ~IsBlank(Line(i)) /\ IsNewKey(Line(i))
    /\ ValueOf(Line(i)) \in {<<"|">>, <<">">>}
    /\ data' = CommitData(data, key, mode, block_accum, list_accum)
    /\ key' = KeyOf(Line(i))
    /\ mode' = "block"
    /\ base_indent' = NoIndent
    /\ block_accum' = <<>>
    /\ list_accum' = IF key = None THEN list_accum ELSE <<>>
    /\ ind' = indentation(Line(i))
    /\ i' = NextLine(i)
    /\ pc' = "block"
    /\ UNCHANGED <<text, yaml_lines, body, j, saw_list, result>>
    /\ UNCHANGED ovars

\* lines 147-150: a blank line inside the block
BlockBlank ==
    /\ pc = "block" /\ i < Len(yaml_lines)
    /\ IsBlank(Line(i))
    /\ block_accum' = Append(block_accum, <<>>)
    /\ i' = NextLine(i)
    /\ UNCHANGED <<text, pc, yaml_lines, body, j, ind, key, mode, base_indent,
                   list_accum, saw_list, data, result>>
    /\ UNCHANGED ovars

\* base_indent after lines 152-153 on the line ln
BaseIndent(ln) == IF base_indent = NoIndent THEN indentation(ln) ELSE base_indent

\* indn < (base_indent or 0), line 154
EndsBlock(ln) == indentation(ln) < BaseIndent(ln)

\* lines 151-157: a line of the block
BlockAppend ==
    /\ pc = "block" /\ i < Len(yaml_lines)
    /\ ~IsBlank(Line(i)) /\ ~EndsBlock(Line(i))
    /\ base_indent' = BaseIndent(Line(i))
    /\ block_accum' = Append(block_accum, From(Line(i), BaseIndent(Line(i))))
    /\ i' = NextLine(i)
    /\ UNCHANGED <<text, pc, yaml_lines, body, j, ind, key, mode, list_accum,
                   saw_list, data, result>>
    /\ UNCHANGED ovars

\* lines 145, 154-159: the block ends at a less indented line or at the end
BlockEnd ==
    /\ pc = "block"
    /\ \/ i >= Len(yaml_lines) /\ UNCHANGED base_indent
       \/ /\ i < Len(yaml_lines)
          /\ ~IsBlank(Line(i)) /\ EndsBlock(Line(i))
          /\ base_indent' = BaseIndent(Line(i))
    /\ data' = CommitData(data, key, mode, block_accum, list_accum)
    /\ key' = None
    /\ mode' = "none"
    /\ block_accum' = <<>>
    /\ list_accum' = <<>>
    /\ pc' = "main"
    /\ UNCHANGED <<text, yaml_lines, body, i, j, ind, saw_list, result>>
    /\ UNCHANGED ovars

\* lines 160-166: "key:" with nothing after the colon starts the look-ahead
MainKeyEmpty ==
    /\ pc = "main" /\ i < Len(yaml_lines)
    /\ ~IsBlank(Line(i)) /\ IsNewKey(Line(i))
    /\ ValueOf(Line(i)) = <<>>
    /\ data' = CommitData(data, key, mode, block_accum, list_accum)
    /\ key' = KeyOf(Line(i))
    /\ mode' = IF key = None THEN mode ELSE "none"
    /\ block_accum' = IF key = None THEN block_accum ELSE <<>>
    /\ list_accum' = <<>>
    /\ ind' = indentation(Line(i))
    /\ j' = i + 1
    /\ saw_list' = FALSE
    /\ pc' = "look"
    /\ UNCHANGED <<text, yaml_lines, body, i, base_indent, result>>
    /\ UNCHANGED ovars

\* s.startswith('- ')
IsItem(line) == StartsWith(Strip(line), <<"-", " ">>)

\* s[2:].strip() of a list item
ItemOf(line) == Strip(From(Strip(line), 2))

\* ind2 <= ind (lines 173 and 187): the line is not under the key
NotUnderKey(line) == indentation(line) <= ind

\* lines 169-171: a blank line before the first item
LookBlank ==
    /\ pc = "look" /\ j < Len(yaml_lines)
    /\ IsBlank(Line(j))
    /\ j' = j + 1
    /\ UNCHANGED <<text, pc, yaml_lines, body, i, ind, key, mode, base_indent,
                   block_accum, list_accum, saw_list, data, result>>
    /\ UNCHANGED ovars

\* lines 176-179: the first item of a list
LookItem ==
    /\ pc = "look" /\ j < Len(yaml_lines)
    /\ ~IsBlank(Line(j)) /\ ~NotUnderKey(Line(j)) /\ IsItem(Line(j))
    /\ saw_list' = TRUE
    /\ list_accum' = Append(list_accum, ItemOf(Line(j)))
    /\ j' = j + 1
    /\ pc' = "items"
    /\ UNCHANGED <<text, yaml_lines, body, i, ind, key, mode, base_indent,
                   block_accum, data, result>>
    /\ UNCHANGED ovars

\* lines 167, 173-174, 196-197, 203-208: no list follows, the value is ''
LookNoList ==
    /\ pc = "look"
    /\ \/ j >= Len(yaml_lines)
       \/ /\ j < Len(yaml_lines)
          /\ ~IsBlank(Line(j))
          /\ NotUnderKey(Line(j)) \/ ~IsItem(Line(j))
    /\ data' = Put(data, key, StrVal(<<>>))
    /\ key' = None
    /\ mode' = "none"
    /\ i' = NextLine(i)
    /\ pc' = "main"
    /\ UNCHANGED <<text, yaml_lines, body, j, ind, base_indent, block_accum,
                   list_accum, saw_list, result>>
    /\ UNCHANGED ovars

\* lines 183-185: a blank line between items
ItemsBlank ==
    /\ pc = "items" /\ j < Len(yaml_lines)
    /\ IsBlank(Line(j))
    /\ j' = j + 1
    /\ UNCHANGED <<text, pc, yaml_lines, body, i, ind, key, mode, base_indent,
                   block_accum, list_accum, saw_list, data, result>>
    /\ UNCHANGED ovars

\* lines 190-192: a further item
ItemsAppend ==
    /\ pc = "items" /\ j < Len(yaml_lines)
    /\ ~IsBlank(Line(j)) /\ ~NotUnderKey(Line(j)) /\ IsItem(Line(j))
    /\ list_accum' = Append(list_accum, ItemOf(Line(j)))
    /\ j' = j + 1
    /\ UNCHANGED <<text, pc, yaml_lines, body, i, ind, key, mode, base_indent,
                   block_accum, saw_list, data, result>>
    /\ UNCHANGED ovars

\* The index the main loop resumes at after a list (line 200: i = j)
AfterList(n, m) == m

\* lines 181, 187-188, 193-202: the list ends and is committed
ItemsEnd ==
    /\ pc = "items"
    /\ \/ j >= Len(yaml_lines)
       \/ /\ j < Len(yaml_lines)
          /\ ~IsBlank(Line(j))
          /\ NotUnderKey(Line(j)) \/ ~IsItem(Line(j))
    /\ data' = CommitData(data, key, "list", block_accum, list_accum)
    /\ key' = None
    /\ mode' = "none"
    /\ block_accum' = <<>>
    /\ list_accum' = <<>>
    /\ i' = AfterList(i, j)
    /\ pc' = "main"
    /\ UNCHANGED <<text, yaml_lines, body, j, ind, base_indent, saw_list, result>>
    /\ UNCHANGED ovars

\* lines 211-212: one pair of surrounding quotes is removed
Unquote(v) ==
    IF \/ StartsWith(v, <<"\"">>) /\ EndsWith(v, <<"\"">>)
       \/ StartsWith(v, <<"'">>) /\ EndsWith(v, <<"'">>)
    THEN SubSeq(v, 2, Len(v) - 1)
    ELSE v

\* lines 209-217: "key: value"
MainKeyScalar ==
    /\ pc = "main" /\ i < Len(yaml_lines)
    /\ ~IsBlank(Line(i)) /\ IsNewKey(Line(i))
    /\ ValueOf(Line(i)) \notin {<<"|">>, <<">">>, <<>>}
    /\ data' = Put(CommitData(data, key, mode, block_accum, list_accum),
                   KeyOf(Line(i)), StrVal(Unquote(ValueOf(Line(i)))))
    /\ key' = None
    /\ mode' = "none"
    /\ block_accum' = IF key = None THEN block_accum ELSE <<>>
    /\ list_accum' = IF key = None THEN list_accum ELSE <<>>
    /\ ind' = indentation(Line(i))
    /\ i' = NextLine(i)
    /\ UNCHANGED <<text, pc, yaml_lines, body, j, base_indent, saw_list, result>>
    /\ UNCHANGED ovars

\* lines 218-221: any other line is skipped
MainSkip ==
    /\ pc = "main" /\ i < Len(yaml_lines)
    /\ ~IsBlank(Line(i)) /\ ~IsNewKey(Line(i))
    /\ ind' = indentation(Line(i))
    /\ i' = NextLine(i)
    /\ UNCHANGED <<text, pc, yaml_lines, body, j, key, mode, base_indent,
                   block_accum, list_accum, saw_list, data, result>>
    /\ UNCHANGED ovars

\* lines 123, 223-224: the loop ends; commit_pending() and return
MainExit ==
    /\ pc = "main" /\ i >= Len(yaml_lines)
    /\ data' = CommitData(data, key, mode, block_accum, list_accum)
    /\ result' = Returned(data', body)
    /\ key' = None
    /\ mode' = "none"
    /\ block_accum' = IF key = None THEN block_accum ELSE <<>>
    /\ list_accum' = IF key = None THEN list_accum ELSE <<>>
    /\ pc' = "done"
    /\ UNCHANGED <<text, yaml_lines, body, i, j, ind, base_indent, saw_list>>
    /\ UNCHANGED ovars

Init ==
    /\ text = <<>>
    /\ pc = "start"
    /\ yaml_lines = <<>>
    /\ body = <<>>
    /\ i = 0
    /\ j = 0
    /\ ind = 0
    /\ key = None
    /\ mode = "none"
    /\ base_indent = 0
    /\ block_accum = <<>>
    /\ list_accum = <<>>
    /\ saw_list = FALSE
    /\ data = <<>>
    /\ result = [absent |-> TRUE, meta |-> <<>>, body |-> <<>>]
    /\ wpc = "start"
    /\ wfn = "none"
    /\ wtext = <<>>
    /\ count = 0
    /\ cpc = "start"
    /\ tree = [exists |-> FALSE, entries |-> {}, has_header |-> FALSE, header |-> <<>>]
    /\ cfg = [include_header |-> TRUE, title_page |-> TRUE, chapter_heading |-> "title",
              scene_sep |-> <<"e", "m">>, chapter_break |-> "hr"]
    /\ scanned = FALSE
    /\ chapters = <<>>
    /\ ci = 0
    /\ si = 0
    /\ block_parts = <<>>
    /\ first_scene = TRUE
    /\ chapter_blocks = <<>>
    /\ manuscript_words = 0
    /\ header_meta = [absent |-> TRUE, meta |-> <<>>]
    /\ header_body = <<>>
    /\ status = -1
    /\ out_file = [exists |-> FALSE, content |-> <<>>]
    /\ dir_created = FALSE

NextParse ==
    \/ ParseText
    \/ MainBlank
    \/ MainKeyBlock
    \/ BlockBlank
    \/ BlockAppend
    \/ BlockEnd
    \/ MainKeyEmpty
    \/ LookBlank
    \/ LookItem
    \/ LookNoList
    \/ ItemsBlank
    \/ ItemsAppend
    \/ ItemsEnd
    \/ MainKeyScalar
    \/ MainSkip
    \/ MainExit

vars == <<pvars, wvars, cvars>>

\* parse_front_matter on the texts of Texts
SpecParse == Init /\ [][NextParse]_vars

(***************************************************************************)
(* Claims about parse_front_matter.  The shape of a text is described      *)
(* here from its lines alone, independently of the parser's variables.     *)
(***************************************************************************)
\* The lines of the text without their terminators
RawLines(t) == [n \in 1..Len(SplitLines(t)) |-> RStripSet(SplitLines(t)[n], {NL})]

Delim == <<"-", "-", "-">>
Dots == <<".", ".", ".">>

\* Index of the first line after the first that is exactly '---' or '...', or 0
ExactClose(t) ==
    IF \E n \in 2..Len(RawLines(t)) : RawLines(t)[n] \in {Delim, Dots}
    THEN CHOOSE n \in 2..Len(RawLines(t)) :
            /\ RawLines(t)[n] \in {Delim, Dots}
            /\ \A m \in 2..(n - 1) : RawLines(t)[m] \notin {Delim, Dots}
    ELSE 0

\* The first line is exactly the opening delimiter once one byte-order mark is removed
ExactOpen(t) ==
    /\ RawLines(t) # <<>>
    /\ RawLines(t)[1] \in {Delim, <<BOM>> \o Delim}

\* The lines strictly between the opening line and the line numbered e
Between(t, e) == SubSeq(RawLines(t), 2, e - 1)

\* The text after the line numbered e
After(t, e) == Join(SubSeq(SplitLines(t), e + 1, Len(SplitLines(t))))

\* A zero-indentation "key:..." line
IsKeyLine(l) == l # <<>> /\ Head(l) \notin WhiteSpace /\ Contains(l, ":")

\* An indented, non-blank line that is not itself a delimiter
IsIndented(l) == l # <<>> /\ Head(l) = " " /\ Strip(l) \notin {<<>>, Delim, Dots}

\* What follows the colon of a key line
RawValue(l) == Strip(SplitTail(l, ":"))

\* The key line that owns line n of ls: the nearest key line above it (0 if none)
Owner(ls, n) ==
    IF \E k \in 1..(n - 1) : IsKeyLine(ls[k])
    THEN CHOOSE k \in 1..(n - 1) :
            IsKeyLine(ls[k]) /\ \A m \in (k + 1)..(n - 1) : ~IsKeyLine(ls[m])
    ELSE 0

\* ls is a metadata block of the accepted dialect: key lines at zero
\* indentation, each followed by nothing (scalar or empty value), by
\* indented dash items (empty value) or by indented content (block scalar).
InDialect(ls) ==
    \A n \in 1..Len(ls) :
        \/ IsKeyLine(ls[n])
        \/ /\ IsIndented(ls[n])
           /\ Owner(ls, n) # 0
           /\ \/ RawValue(ls[Owner(ls, n)]) \in {<<"|">>, <<">">>}
              \/ /\ RawValue(ls[Owner(ls, n)]) = <<>>
                 /\ StartsWith(Strip(ls[n]), <<"-", " ">>)

KeyLines(ls) == {n \in 1..Len(ls) : IsKeyLine(ls[n])}

TopKeys(ls) == {Strip(SplitHead(ls[n], ":")) : n \in KeyLines(ls)}

\* A well-formed text: delimiters, a block of the dialect, N >= 1 distinct keys
WellFormed(t) ==
    /\ ExactOpen(t)
    /\ ExactClose(t) # 0
    /\ InDialect(Between(t, ExactClose(t)))
    /\ KeyLines(Between(t, ExactClose(t))) # {}
    /\ Cardinality(TopKeys(Between(t, ExactClose(t))))
         = Cardinality(KeyLines(Between(t, ExactClose(t))))

\* C3: for a well-formed text with N distinct zero-indentation keys and body
\* B, parse_front_matter returns a mapping with exactly those N keys and a
\* body equal to B.
C3_WellFormedKeysAndBody ==
    (pc = "done" /\ WellFormed(text)) =>
        /\ ~result.absent
        /\ DOMAIN result.meta = TopKeys(Between(text, ExactClose(text)))
        /\ result.body = After(text, ExactClose(text))

\* C3 (failing input): a block scalar with no content line, then a key
C3_BlockThenKeyInput ==
    text = <<"-", "-", "-", NL, "a", ":", " ", "|", NL, "b", ":", NL, "-", "-", "-">>

\* The first line is the opening delimiter once leading byte-order marks
\* and then surrounding whitespace are removed
TrimOpen(t) ==
    RawLines(t) # <<>> /\ Strip(LStripSet(RawLines(t)[1], {BOM})) = Delim

\* Some later line is '---' or '...' once surrounding whitespace is removed
TrimClose(t) == \E n \in 2..Len(RawLines(t)) : Strip(RawLines(t)[n]) \in {Delim, Dots}

\* C4 as stated: a text whose first line (after removing a byte-order mark)
\* is not exactly the opening delimiter, or that has no later closing
\* delimiter line, yields absent metadata and the input text as body.
C4_NotExactDelimiterUnchanged ==
    (pc = "done" /\ (~ExactOpen(text) \/ ExactClose(text) = 0)) =>
        (result.absent /\ result.body = text)

\* C4 as amended: a text whose first line is not the opening delimiter once
\* leading byte-order marks and surrounding whitespace are removed, or that
\* has no later line that is '---' or '...' once surrounding whitespace is
\* removed, yields absent metadata and the input text, unchanged, as body.
C4_NoDelimiterUnchanged ==
    (pc = "done" /\ (~TrimOpen(text) \/ ~TrimClose(text))) =>
        (result.absent /\ result.body = text)

\* C4 witness: an unterminated block after a byte-order mark was returned whole
C4_UnterminatedWithBom ==
    /\ pc = "done"
    /\ text # <<>> /\ Head(text) = BOM
    /\ TrimOpen(text) /\ ~TrimClose(text)
    /\ Len(RawLines(text)) >= 3
    /\ result.absent /\ result.body = text

\* Every step of the loops moves the line index forward
IndexAdvances ==
    /\ i' >= i
    /\ (pc = "main" /\ pc' \in {"main", "block"}) => i' > i
    /\ (pc = "main" /\ pc' = "look") => j' > i
    /\ (pc = "block" /\ pc' = "block") => i' > i
    /\ (pc \in {"look", "items"} /\ pc' \in {"look", "items"}) => j' > j
    /\ (pc \in {"look", "items"} /\ pc' = "main") => i' > i

\* C5: parse_front_matter is total: the line index strictly increases on
\* every iteration of the main loop, of the block-scalar loop and of the
\* list look-ahead loops, and the call ends by returning its pair.
C5_ParseTerminates ==
    /\ [][IndexAdvances]_pvars
    /\ [](i <= Len(yaml_lines) /\ j <= Len(yaml_lines))
    /\ [](pc = "done" \/ ENABLED <<NextParse>>_pvars)

\* C5 witness: a call that went through the look-ahead loops and the main
\* loop on three metadata lines has returned, a list among the values
C5_ThreeLinesParsed ==
    /\ pc = "done" /\ Len(yaml_lines) = 3 /\ i = 3
    /\ saw_list /\ ~result.absent
    /\ \E k \in DOMAIN result.meta : result.meta[k].t = "list" /\ result.meta[k].v # <<>>

\* C10: every key of the returned mapping comes from a zero-indentation
\* "key: value" line between the delimiters; an indented line never adds a key.
C10_KeysFromZeroIndentation ==
    (pc = "done" /\ ~result.absent) =>
        \A k \in DOMAIN result.meta :
            \E n \in 1..Len(yaml_lines) :
                /\ indentation(yaml_lines[n]) = 0
                /\ Contains(yaml_lines[n], ":")
                /\ Strip(SplitHead(yaml_lines[n], ":")) = k

(***************************************************************************)
(* strip_yaml_front_matter and count_words.                                *)
(***************************************************************************)
UpperCase ==
    <<"A", "B", "C", "D", "E", "F", "G", "H", "I", "J", "K", "L", "M",
      "N", "O", "P", "Q", "R", "S", "T", "U", "V", "W", "X", "Y", "Z">>

LowerCase ==
    <<"a", "b", "c", "d", "e", "f", "g", "h", "i", "j", "k", "l", "m",
      "n", "o", "p", "q", "r", "s", "t", "u", "v", "w", "x", "y", "z">>

Digits == <<"0", "1", "2", "3", "4", "5", "6", "7", "8", "9">>

Range(f) == {f[x] : x \in DOMAIN f}

\* As IsWordChar, with the apostrophe taken for a word character
IsWordCharOrQuote(c) == c \in Range(UpperCase) \cup Range(LowerCase) \cup Range(Digits) \cup {"_", "'"}

\* \w of the re module
IsWordChar(c) == c \in Range(UpperCase) \cup Range(LowerCase) \cup Range(Digits) \cup {"_"}

\* [\w'] of WORD_RE
IsTokenChar(c) == IsWordChar(c) \/ c = "'"

\* \b at offset p (0..Len(s)): a word character on exactly one side
IsWordBoundary(s, p) ==
    (p > 0 /\ IsWordChar(s[p])) # (p < Len(s) /\ IsWordChar(s[p + 1]))

\* The end of the match of \b[\w']+\b that starts at offset p, 0 when there
\* is none: the longest run of token characters that ends at a \b.
MatchEnd(s, p) ==
    LET ends == {q \in (p + 1)..Len(s) :
                    /\ \A n \in (p + 1)..q : IsTokenChar(s[n])
                    /\ IsWordBoundary(s, q)}
    IN IF IsWordBoundary(s, p) /\ ends # {}
       THEN CHOOSE q \in ends : \A r \in ends : r <= q
       ELSE 0

RECURSIVE FindAllFrom(_, _)
\* len(WORD_RE.findall(s)), scanning from offset p
FindAllFrom(s, p) ==
    IF p >= Len(s) THEN 0
    ELSE IF MatchEnd(s, p) # 0 THEN 1 + FindAllFrom(s, MatchEnd(s, p))
    ELSE FindAllFrom(s, p + 1)

\* end_index of strip_yaml_front_matter (1-based), 0 for None
StripEndIndex(lines) ==
    IF \E n \in 2..Len(lines) : Strip(lines[n]) \in {<<"-", "-", "-">>, <<".", ".", ".">>}
    THEN CHOOSE n \in 2..Len(lines) :
            /\ Strip(lines[n]) \in {<<"-", "-", "-">>, <<".", ".", ".">>}
            /\ \A m \in 2..(n - 1) :
                  Strip(lines[m]) \notin {<<"-", "-", "-">>, <<".", ".", ".">>}
    ELSE 0

\* As strip_yaml_front_matter, with the block never removed
strip_nothing(t) == t

\* strip_yaml_front_matter of compile_manuscript.py
strip_yaml_front_matter(t) ==
    LET lines == SplitLines(t)
    IN IF t = <<>> \/ lines = <<>> THEN t
       ELSE IF Strip(LStripSet(lines[1], {BOM})) # <<"-", "-", "-">> THEN t
       ELSE IF StripEndIndex(lines) = 0 THEN t
       ELSE Join(SubSeq(lines, StripEndIndex(lines) + 1, Len(lines)))

\* strip_yaml_front_matter of word_count.py
wc_strip_yaml_front_matter(t) ==
    LET lines == SplitLines(t)
    IN IF t = <<>> \/ lines = <<>> THEN t
       ELSE IF Strip(LStripSet(lines[1], {BOM})) # <<"-", "-", "-">> THEN t
       ELSE IF StripEndIndex(lines) = 0 THEN t
       ELSE Join(SubSeq(lines, StripEndIndex(lines) + 1, Len(lines)))

\* count_words of compile_manuscript.py
count_words(t) == IF t = <<>> THEN 0 ELSE FindAllFrom(t, 0)

\* count_words of word_count.py
wc_count_words(t) ==
    IF t = <<>> THEN 0 ELSE FindAllFrom(wc_strip_yaml_front_matter(t), 0)

(***************************************************************************)
(* The texts that are counted: a metadata block or none, then up to        *)
(* MaxChars characters of WordAlphabet, or the sentence of the test.       *)
(***************************************************************************)
WordAlphabet == {"a", "1", "_", "'", " ", ","}

\* "---\na b\n---\n"
MetaBlock == <<"-", "-", "-", NL, "a", " ", "b", NL, "-", "-", "-", NL>>

\* "The cat's toy, it's here."
Sentence ==
    <<"T", "h", "e", " ", "c", "a", "t", "'", "s", " ", "t", "o", "y", ",", " ",
      "i", "t", "'", "s", " ", "h", "e", "r", "e", ".">>

CharSeqs == UNION { [1..n -> WordAlphabet] : n \in 0..MaxChars }

WordTexts == { m \o t : m \in {<<>>, MetaBlock}, t \in CharSeqs \cup {Sentence} }

\* word_count.py, line 129: s.words = count_words(load_text(s.path))
CountFileWords ==
    /\ wpc = "start"
    /\ \E t \in WordTexts :
         /\ wtext' = t
         /\ count' = wc_count_words(t)
    /\ wfn' = "word_count"
    /\ wpc' = "counted"
    /\ UNCHANGED <<pvars, cvars>>

\* compile_manuscript.py, lines 354-361: the words of one scene
CountSceneWords ==
    /\ wpc = "start"
    /\ \E t \in WordTexts :
         /\ wtext' = t
         /\ count' = count_words(Strip(strip_yaml_front_matter(t)))
    /\ wfn' = "compile_manuscript"
    /\ wpc' = "counted"
    /\ UNCHANGED <<pvars, cvars>>

NextWords ==
    \/ CountFileWords
    \/ CountSceneWords

\* count_words on the texts of WordTexts
SpecWords == Init /\ [][NextWords]_vars

(***************************************************************************)
(* Claims about count_words.                                               *)
(***************************************************************************)
\* The characters that separate tokens in the texts counted
Separators == {" ", ",", ".", NL, "-"}

\* The text that remains once the leading metadata block is removed
Remainder(t) == IF StartsWith(t, MetaBlock) THEN From(t, Len(MetaBlock)) ELSE t

\* The offsets at which a maximal run of non-separators starts
RunStarts(s) ==
    {n \in 1..Len(s) : s[n] \notin Separators /\ (n = 1 \/ s[n - 1] \in Separators)}

\* The run that starts at n holds a character other than the apostrophe
HasWordChar(s, n) ==
    \E q \in n..Len(s) : s[q] # "'" /\ \A r \in n..q : s[r] \notin Separators

CodePoints ==
    <<" ", "'", ",", "-", ".">> \o Digits \o <<":">> \o UpperCase \o <<"_">>
        \o LowerCase \o <<"|", "~">>

\* ord(c), up to an order-preserving renumbering
Ord(c) == CHOOSE n \in 1..Len(CodePoints) : CodePoints[n] = c

RECURSIVE StrLess(_, _)
\* a < b on str
StrLess(a, b) ==
    IF b = <<>> THEN FALSE
    ELSE IF a = <<>> THEN TRUE
    ELSE IF Head(a) = Head(b) THEN StrLess(Tail(a), Tail(b))
    ELSE Ord(Head(a)) < Ord(Head(b))

\* c.lower()
LowerChar(c) ==
    IF c \in Range(UpperCase)
    THEN LowerCase[CHOOSE n \in 1..Len(UpperCase) : UpperCase[n] = c]
    ELSE c

\* s.lower()
Lower(s) == [n \in 1..Len(s) |-> LowerChar(s[n])]

IsDigit(c) == c \in Range(Digits)

\* int() of two digits
IntOf(d1, d2) ==
    10 * ((CHOOSE n \in 1..10 : Digits[n] = d1) - 1) + (CHOOSE n \in 1..10 : Digits[n] = d2) - 1

\* f"{n:02d}" for 0 <= n < 100
TwoDigits(n) == <<Digits[(n \div 10) + 1], Digits[(n % 10) + 1]>>

\* CHAPTER_DIR_RE.match(name): two digits, "-", a title of at least one character
MatchesChapterDir(name) ==
    /\ Len(name) >= 4
    /\ IsDigit(name[1]) /\ IsDigit(name[2])
    /\ name[3] = "-"
    /\ ~Contains(name, NL)

\* parse_chapter_dir(p) is not None
IsChapterDir(e) == e.is_dir /\ MatchesChapterDir(e.name)

\* SCENE_FILE_RE.match(name), case-insensitive
MatchesSceneFile(name) ==
    /\ Len(name) = 12
    /\ Lower(SubSeq(name, 1, 2)) = <<"c", "h">>
    /\ IsDigit(name[3]) /\ IsDigit(name[4])
    /\ Lower(SubSeq(name, 5, 7)) = <<"-", "s", "c">>
    /\ IsDigit(name[8]) /\ IsDigit(name[9])
    /\ Lower(SubSeq(name, 10, 12)) = <<".", "m", "d">>

\* Scene(chapter_num, scene_num, path) for a file that matches
SceneOf(f) ==
    [chapter_num |-> IntOf(f.name[3], f.name[4]),
     scene_num |-> IntOf(f.name[8], f.name[9]),
     name |-> f.name,
     content |-> f.content]

\* key(a) < key(b) for key = (chapter_num, scene_num, path.name), line 280
SceneKeyLess(a, b) ==
    \/ a.chapter_num < b.chapter_num
    \/ a.chapter_num = b.chapter_num /\ a.scene_num < b.scene_num
    \/ a.chapter_num = b.chapter_num /\ a.scene_num = b.scene_num /\ StrLess(a.name, b.name)

\* key(a) < key(b) for key = (number, title.lower()), line 283
ChapterKeyLess(a, b) ==
    \/ a.number < b.number
    \/ a.number = b.number /\ StrLess(Lower(a.title), Lower(b.title))

RECURSIVE InsertScene(_, _)
\* x put into a sorted list after every element whose key is not greater
InsertScene(sorted, x) ==
    IF sorted = <<>> THEN <<x>>
    ELSE IF SceneKeyLess(x, Head(sorted)) THEN <<x>> \o sorted
    ELSE <<Head(sorted)>> \o InsertScene(Tail(sorted), x)

RECURSIVE SortScenes(_)
\* scenes.sort(key=...): list.sort is stable
SortScenes(q) ==
    IF q = <<>> THEN <<>>
    ELSE InsertScene(SortScenes(SubSeq(q, 1, Len(q) - 1)), q[Len(q)])

RECURSIVE InsertChapter(_, _)
InsertChapter(sorted, x) ==
    IF sorted = <<>> THEN <<x>>
    ELSE IF ChapterKeyLess(x, Head(sorted)) THEN <<x>> \o sorted
    ELSE <<Head(sorted)>> \o InsertChapter(Tail(sorted), x)

RECURSIVE SortChapters(_)
\* chapters.sort(key=...): list.sort is stable
SortChapters(q) ==
    IF q = <<>> THEN <<>>
    ELSE InsertChapter(SortChapters(SubSeq(q, 1, Len(q) - 1)), q[Len(q)])

RECURSIVE ScenesIn(_)
\* lines 273-279: the scenes among the files child.glob("*.md") yields
ScenesIn(files) ==
    IF files = <<>> THEN <<>>
    ELSE (IF EndsWith(Head(files).name, <<".", "m", "d">>) /\ MatchesSceneFile(Head(files).name)
          THEN <<SceneOf(Head(files))>>
          ELSE <<>>) \o ScenesIn(Tail(files))

\* parse_chapter_dir(p), with the scenes of lines 273-281 attached
ChapterOf(e, files) ==
    [number |-> IntOf(e.name[1], e.name[2]),
     title |-> Strip(From(e.name, 3)),
     name |-> e.name,
     scenes |-> SortScenes(ScenesIn(files))]

RECURSIVE Gather(_, _)
\* lines 268-282: the chapters in the order root.iterdir() yields them
Gather(listing, globbed) ==
    IF listing = <<>> THEN <<>>
    ELSE (IF IsChapterDir(Head(listing))
          THEN <<ChapterOf(Head(listing), globbed[Head(listing).name])>>
          ELSE <<>>) \o Gather(Tail(listing), globbed)

\* collect_structure(root), for the orders iterdir() and glob() enumerate in
collect_structure(listing, globbed) == SortChapters(Gather(listing, globbed))

\* The orders a set can be enumerated in
Enumerations(S) ==
    {q \in [1..Cardinality(S) -> S] : \A a, b \in 1..Cardinality(S) : q[a] = q[b] => a = b}

\* The orders root.iterdir() can yield
Listings(t) == Enumerations(t.entries)

\* The orders child.glob("*.md") can yield, for every entry of the root
Globbings(t) ==
    {g \in [{e.name : e \in t.entries} -> UNION {Enumerations(e.files) : e \in t.entries}] :
        \A e \in t.entries : g[e.name] \in Enumerations(e.files)}

(***************************************************************************)
(* Rendering.                                                              *)
(***************************************************************************)
\* render_chapter_heading(ch, style)
render_chapter_heading(ch, style) ==
    IF style = "none" THEN <<>>
    ELSE IF style = "number"
    THEN <<"#", " ">> \o <<"C", "h", "a", "p", "t", "e", "r", " ">> \o TwoDigits(ch.number) \o <<NL, NL>>
    ELSE <<"#", " ">> \o <<"C", "h", "a", "p", "t", "e", "r", " ">> \o TwoDigits(ch.number) \o <<":", " ">> \o ch.title \o <<NL, NL>>

\* render_scene_separator(sep)
render_scene_separator(sep) ==
    IF sep = <<"n", "o", "n", "e">> THEN <<>>
    ELSE IF sep = <<"h", "r">>
    THEN <<NL, NL>> \o
         <<"<", "h", "r", " ", "c", "l", "a", "s", "s", "=", "\"", "s",
           "c", "e", "n", "e", "-", "b", "r", "e", "a", "k", "\"", " ",
           "/", ">">> \o <<NL, NL>>
    ELSE IF sep = <<"e", "m">> THEN <<NL, NL, "*", "*", "*", NL, NL>>
    ELSE <<NL, NL>> \o sep \o <<NL, NL>>

\* render_chapter_break(style)
render_chapter_break(style) ==
    IF style = "none" THEN <<NL, NL>>
    ELSE IF style = "hr"
    THEN <<NL, NL>> \o
         <<"<", "h", "r", " ", "c", "l", "a", "s", "s", "=", "\"", "c",
           "h", "a", "p", "t", "e", "r", "-", "b", "r", "e", "a", "k",
           "\"", " ", "/", ">">> \o <<NL, NL>>
    ELSE IF style = "page"
    THEN <<NL, NL>> \o
         <<"<", "!", "-", "-", " ", "C", "H", "A", "P", "T", "E", "R", " ",
           "B", "R", "E", "A", "K", " ", "-", "-", ">">> \o <<NL, NL>>
    ELSE <<NL, NL>>

\* get_str(key) of render_title_page; '' stands for None as well
get_str(meta, k) ==
    IF k \in DOMAIN meta /\ meta[k].t = "str" THEN Strip(meta[k].v) ELSE <<>>

RECURSIVE StrippedNonEmpty(_)
\* [str(x).strip() for x in val if str(x).strip()]
StrippedNonEmpty(l) ==
    IF l = <<>> THEN <<>>
    ELSE (IF Strip(Head(l)) # <<>> THEN <<Strip(Head(l))>> ELSE <<>>)
            \o StrippedNonEmpty(Tail(l))

\* get_list_or_str(key) of render_title_page
get_list_or_str(meta, k) ==
    IF k \notin DOMAIN meta THEN <<>>
    ELSE IF meta[k].t = "list" THEN StrippedNonEmpty(meta[k].v)
    ELSE IF Strip(meta[k].v) # <<>> THEN <<Strip(meta[k].v)>>
    ELSE <<>>

\* a or b on str
OrElse(x, y) == IF x # <<>> THEN x ELSE y

RECURSIVE Decimal(_)
\* str(n) for n >= 0
Decimal(n) == IF n < 10 THEN <<Digits[n + 1]>> ELSE Decimal(n \div 10) \o <<Digits[(n % 10) + 1]>>

RECURSIVE Grouped(_)
\* f"{n:,}" for n >= 0
Grouped(n) ==
    IF n < 1000 THEN Decimal(n)
    ELSE Grouped(n \div 1000) \o <<",">> \o
         <<Digits[((n % 1000) \div 100) + 1], Digits[((n % 100) \div 10) + 1], Digits[(n % 10) + 1]>>

\* int(round(n / 1000.0)) * 1000: round() rounds a half to the even integer
ApproxThousands(n) ==
    LET q == n \div 1000
        r == n % 1000
    IN 1000 * (IF r < 500 THEN q
               ELSE IF r > 500 THEN q + 1
               ELSE IF q % 2 = 0 THEN q ELSE q + 1)

\* [x] if x else []
Opt(x) == IF x # <<>> THEN <<x>> ELSE <<>>

\* render_title_page(meta, manuscript_words)
render_title_page(meta, words) ==
    LET author == get_str(meta, <<"a", "u", "t", "h", "o", "r">>)
        title == get_str(meta, <<"t", "i", "t", "l", "e">>)
        subtitle == get_str(meta, <<"s", "u", "b", "t", "i", "t", "l", "e">>)
        email == get_str(meta, <<"e", "m", "a", "i", "l">>)
        phone == get_str(meta, <<"p", "h", "o", "n", "e">>)
        street == get_str(meta, <<"s", "t", "r", "e", "e", "t">>)
        city == get_str(meta, <<"c", "i", "t", "y">>)
        state == get_str(meta, <<"s", "t", "a", "t", "e">>)
        postal == OrElse(get_str(meta, <<"p", "o", "s", "t", "a", "l", "_", "c", "o", "d", "e">>), get_str(meta, <<"z", "i", "p">>))
        country == get_str(meta, <<"c", "o", "u", "n", "t", "r", "y">>)
        locality == city \o (IF state # <<>> THEN <<",", " ">> \o state ELSE <<>>)
                         \o (IF postal # <<>> THEN <<" ">> \o postal ELSE <<>>)
        address_lines == get_list_or_str(meta, <<"a", "d", "d", "r", "e", "s", "s">>)
                            \o Opt(street)
                            \o (IF city # <<>> THEN <<locality>> ELSE <<>>)
                            \o Opt(country)
        wc == OrElse(OrElse(get_str(meta, <<"w", "o", "r", "d", "_", "c", "o", "u", "n", "t">>), get_str(meta, <<"a", "p", "p", "r", "o", "x", "_", "w", "o", "r", "d", "_", "c", "o", "u", "n", "t">>)),
                     Grouped(ApproxThousands(words)))
        left_block == Opt(author) \o address_lines \o Opt(phone) \o Opt(email)
                         \o (IF wc # <<>> THEN <<<<"W", "o", "r", "d", " ", "C", "o", "u", "n", "t", ":", " ">> \o wc>> ELSE <<>>)
        title_block == (IF title # <<>> THEN <<<<"#", " ">> \o title>> ELSE <<>>)
                          \o (IF subtitle # <<>> THEN <<<<"#", "#", " ">> \o subtitle>> ELSE <<>>)
                          \o (IF author # <<>> THEN <<<<"b", "y", " ">> \o author>> ELSE <<>>)
    IN (IF left_block # <<>> THEN Strip(JoinWith(<<NL>>, left_block)) \o <<NL, NL>> ELSE <<>>)
          \o (IF title_block # <<>> THEN Strip(JoinWith(<<NL>>, title_block)) \o <<NL, NL>> ELSE <<>>)
          \o render_chapter_break("hr")

(***************************************************************************)
(* The snapshots and arguments compile_manuscript is run on.               *)
(***************************************************************************)
\* A scene that is empty once its metadata is stripped and it is trimmed
EmptyScene == <<"-", "-", "-", NL, "k", NL, "-", "-", "-", NL, " ", NL>>

SceneContents == { EmptyScene, <<"p">> }

FileNames ==
    { <<"c", "h", "0", "1", "-", "s", "c", "0", "2", ".", "m", "d">>,
      <<"c", "h", "0", "2", "-", "s", "c", "0", "1", ".", "m", "d">>,
      <<"n", ".", "m", "d">> }

Files == { [name |-> n, content |-> c] : n \in FileNames, c \in SceneContents }

RECURSIVE FileSetsUpTo(_)
\* The sets of at most n files with distinct names
FileSetsUpTo(n) ==
    IF n = 0 THEN {{}}
    ELSE FileSetsUpTo(n - 1) \cup
         UNION { { F \cup {f} : f \in {g \in Files : \A h \in F : h.name # g.name} } :
                    F \in FileSetsUpTo(n - 1) }

ChapterNames == { <<"0", "1", "-", "A">>, <<"0", "1", "-", "a">>, <<"0", "2", "-", "B">> }

\* Folders named as chapters, a folder named otherwise, a file named as a chapter
Entries ==
    { [name |-> n, is_dir |-> TRUE, files |-> F] : n \in ChapterNames, F \in FileSetsUpTo(MaxScenes) }
        \cup { [name |-> <<"x">>, is_dir |-> TRUE, files |-> {}],
               [name |-> <<"0", "3", "-", "C">>, is_dir |-> FALSE, files |-> {}] }

RECURSIVE EntrySetsUpTo(_)
\* The sets of at most n entries with distinct names
EntrySetsUpTo(n) ==
    IF n = 0 THEN {{}}
    ELSE EntrySetsUpTo(n - 1) \cup
         UNION { { E \cup {e} : e \in {g \in Entries : \A h \in E : h.name # g.name} } :
                    E \in EntrySetsUpTo(n - 1) }

NoRoot == [exists |-> FALSE, entries |-> {}, has_header |-> FALSE, header |-> <<>>]

Trees ==
    { [exists |-> TRUE, entries |-> E, has_header |-> FALSE, header |-> <<>>] :
        E \in EntrySetsUpTo(MaxChapters) } \cup {NoRoot}

\* Every tree without a header document, under every heading and break style
TreeInputs ==
    { [tree |-> t,
       cfg |-> [include_header |-> TRUE, title_page |-> TRUE, chapter_heading |-> h,
                scene_sep |-> <<"e", "m">>, chapter_break |-> b]] :
        t \in Trees, h \in {"title", "number", "none"}, b \in {"hr", "page", "none"} }

\* Header documents: metadata of every kind and a body after a blank line;
\* no metadata and a body after a blank line; metadata and a blank body
Headers ==
    { <<"-", "-", "-", NL, "a", ":", " ", "|", NL, NL, " ", "x", NL, "a",
        "d", "d", "r", "e", "s", "s", ":", NL, NL, " ", "-", " ", "x", NL,
        NL, " ", "-", " ", "y", NL, "t", "i", "t", "l", "e", ":", " ", "T",
        NL, "t", ":", NL, "z", NL, NL, "-", "-", "-", NL, NL, "H", NL>>,
      <<NL, " ", "H", NL>>,
      <<"-", "-", "-", NL, "t", "i", "t", "l", "e", ":", " ", "T", NL, "-",
        "-", "-", NL, " ", NL>> }

Scene1 == [name |-> <<"c", "h", "0", "1", "-", "s", "c", "0", "1", ".", "m", "d">>, content |-> <<"p">>]
Scene2 == [name |-> <<"c", "h", "0", "1", "-", "s", "c", "0", "2", ".", "m", "d">>, content |-> <<"-", "-", "-", NL, "k", NL, "-", "-", "-", NL, "q", NL>>]

\* A scene without a body between two scenes, and a last scene of two words
SceneGap == [name |-> <<"c", "h", "0", "1", "-", "s", "c", "0", "2", ".", "m", "d">>, content |-> EmptyScene]
Scene3 == [name |-> <<"c", "h", "0", "1", "-", "s", "c", "0", "3", ".", "m", "d">>, content |-> <<" ", "q", " ", "r", NL>>]

DocEntries ==
    { { [name |-> <<"0", "1", "-", "A">>, is_dir |-> TRUE, files |-> {Scene1, Scene2}] },
      { [name |-> <<"0", "1", "-", "A">>, is_dir |-> TRUE, files |-> {Scene1, SceneGap, Scene3}] },
      { [name |-> <<"0", "1", "-", "A">>, is_dir |-> TRUE, files |-> {Scene1}],
        [name |-> <<"0", "2", "-", "B">>, is_dir |-> TRUE, files |-> {Scene2}] } }

\* Three trees with every header document, under every combination of options
DocInputs ==
    { [tree |-> [exists |-> TRUE, entries |-> E, has_header |-> TRUE, header |-> hd],
       cfg |-> [include_header |-> ih, title_page |-> tp, chapter_heading |-> h,
                scene_sep |-> sp, chapter_break |-> b]] :
        E \in DocEntries, hd \in Headers, ih \in BOOLEAN, tp \in BOOLEAN,
        h \in {"title", "none"},
        sp \in {<<"e", "m">>, <<"h", "r">>, <<"n", "o", "n", "e">>, <<"~">>},
        b \in {"hr", "page", "none"} }

Inputs == TreeInputs \cup DocInputs

(***************************************************************************)
(* compile_manuscript.                                                     *)
(***************************************************************************)
\* lines 328-330: the root is missing
CompileRootMissing ==
    /\ cpc = "start"
    /\ \E in \in Inputs :
         /\ ~in.tree.exists
         /\ tree' = in.tree
         /\ cfg' = in.cfg
    /\ status' = 2
    /\ cpc' = "done"
    /\ UNCHANGED <<scanned, chapters, ci, si, block_parts, first_scene, chapter_blocks,
                   manuscript_words, header_meta, header_body, out_file, dir_created>>
    /\ UNCHANGED <<pvars, wvars>>

\* lines 332-339: the structure is collected; no chapter ends the run
CompileCollect ==
    /\ cpc = "start"
    /\ \E in \in Inputs :
         /\ in.tree.exists
         /\ tree' = in.tree
         /\ cfg' = in.cfg
         /\ \E listing \in Listings(in.tree), globbed \in Globbings(in.tree) :
              chapters' = collect_structure(listing, globbed)
    /\ scanned' = TRUE
    /\ IF chapters' = <<>>
       THEN status' = 1 /\ cpc' = "done"
       ELSE status' = status /\ cpc' = "chapters"
    /\ chapter_blocks' = <<>>
    /\ manuscript_words' = 0
    /\ ci' = 0
    /\ UNCHANGED <<si, block_parts, first_scene, header_meta, header_body, out_file,
                   dir_created>>
    /\ UNCHANGED <<pvars, wvars>>

\* The chapter and the scene the loops are at
Chapter == chapters[ci + 1]
Scene == Chapter.scenes[si + 1]

\* lines 341-343: a chapter without scenes is passed over
ChapterSkip ==
    /\ cpc = "chapters" /\ ci < Len(chapters)
    /\ Chapter.scenes = <<>>
    /\ ci' = ci + 1
    /\ UNCHANGED <<cpc, tree, cfg, scanned, chapters, si, block_parts, first_scene,
                   chapter_blocks, manuscript_words, header_meta, header_body, status,
                   out_file, dir_created>>
    /\ UNCHANGED <<pvars, wvars>>

\* block_parts after lines 344-347
HeadingParts(ch, style) ==
    IF render_chapter_heading(ch, style) # <<>>
    THEN <<render_chapter_heading(ch, style)>>
    ELSE <<>>

\* lines 344-348: a chapter with scenes starts its block
ChapterBegin ==
    /\ cpc = "chapters" /\ ci < Len(chapters)
    /\ Chapter.scenes # <<>>
    /\ block_parts' = HeadingParts(Chapter, cfg.chapter_heading)
    /\ first_scene' = TRUE
    /\ si' = 0
    /\ cpc' = "scenes"
    /\ UNCHANGED <<tree, cfg, scanned, chapters, ci, chapter_blocks, manuscript_words,
                   header_meta, header_body, status, out_file, dir_created>>
    /\ UNCHANGED <<pvars, wvars>>

\* body of line 354
SceneBody(sc) == Strip(strip_yaml_front_matter(sc.content))

\* As AddScene, with the separator before every scene, the first included
AddSceneAlways(parts, first, b, sep) ==
    parts \o <<render_scene_separator(sep)>> \o <<b \o <<NL, NL>>>>

\* block_parts after lines 357-360 for a scene with a body
AddScene(parts, first, b, sep) ==
    parts \o (IF ~first THEN <<render_scene_separator(sep)>> ELSE <<>>) \o <<b \o <<NL, NL>>>>

\* lines 349-356: a scene without a body adds nothing
SceneEmpty ==
    /\ cpc = "scenes" /\ si < Len(Chapter.scenes)
    /\ SceneBody(Scene) = <<>>
    /\ si' = si + 1
    /\ UNCHANGED <<cpc, tree, cfg, scanned, chapters, ci, block_parts, first_scene,
                   chapter_blocks, manuscript_words, header_meta, header_body, status,
                   out_file, dir_created>>
    /\ UNCHANGED <<pvars, wvars>>

\* lines 349-361: a scene with a body is appended and counted
SceneAppend ==
    /\ cpc = "scenes" /\ si < Len(Chapter.scenes)
    /\ SceneBody(Scene) # <<>>
    /\ block_parts' = AddScene(block_parts, first_scene, SceneBody(Scene), cfg.scene_sep)
    /\ first_scene' = FALSE
    /\ manuscript_words' = manuscript_words + count_words(SceneBody(Scene))
    /\ si' = si + 1
    /\ UNCHANGED <<cpc, tree, cfg, scanned, chapters, ci, chapter_blocks, header_meta,
                   header_body, status, out_file, dir_created>>
    /\ UNCHANGED <<pvars, wvars>>

\* chapter_blocks after lines 362-363
AddBlock(blocks, parts) == IF parts # <<>> THEN Append(blocks, Join(parts)) ELSE blocks

\* lines 362-363: the block of the chapter is kept if it has parts
ChapterEnd ==
    /\ cpc = "scenes" /\ si >= Len(Chapter.scenes)
    /\ chapter_blocks' = AddBlock(chapter_blocks, block_parts)
    /\ ci' = ci + 1
    /\ cpc' = "chapters"
    /\ UNCHANGED <<tree, cfg, scanned, chapters, si, block_parts, first_scene,
                   manuscript_words, header_meta, header_body, status, out_file,
                   dir_created>>
    /\ UNCHANGED <<pvars, wvars>>

\* lines 369-372: there is no header document
HeaderAbsent ==
    /\ cpc = "chapters" /\ ci >= Len(chapters)
    /\ ~tree.has_header
    /\ header_meta' = [absent |-> TRUE, meta |-> <<>>]
    /\ header_body' = <<>>
    /\ cpc' = "compose"
    /\ UNCHANGED <<tree, cfg, scanned, chapters, ci, si, block_parts, first_scene,
                   chapter_blocks, manuscript_words, status, out_file, dir_created>>
    /\ UNCHANGED <<pvars, wvars>>

\* lines 372-377: parse_front_matter is called on the header document
HeaderRead ==
    /\ cpc = "chapters" /\ ci >= Len(chapters)
    /\ tree.has_header
    /\ ParseBegin(tree.header)
    /\ cpc' = "parsing"
    /\ UNCHANGED <<tree, cfg, scanned, chapters, ci, si, block_parts, first_scene,
                   chapter_blocks, manuscript_words, header_meta, header_body, status,
                   out_file, dir_created>>
    /\ UNCHANGED wvars

\* line 377: parse_front_matter has returned
HeaderParsed ==
    /\ cpc = "parsing" /\ pc = "done"
    /\ header_meta' = [absent |-> result.absent, meta |-> result.meta]
    /\ header_body' = result.body
    /\ cpc' = "compose"
    /\ UNCHANGED <<tree, cfg, scanned, chapters, ci, si, block_parts, first_scene,
                   chapter_blocks, manuscript_words, status, out_file, dir_created>>
    /\ UNCHANGED <<pvars, wvars>>

RECURSIVE WithBreaks(_, _, _)
\* lines 388-391: the blocks from the one numbered idx on, a break before each but the first
WithBreaks(blocks, idx, style) ==
    IF blocks = <<>> THEN <<>>
    ELSE (IF idx > 0 THEN <<render_chapter_break(style)>> ELSE <<>>)
            \o <<Head(blocks)>> \o WithBreaks(Tail(blocks), idx + 1, style)

\* The header body as line 383 trims it
TrimHeader(hb) == RStrip(hb)

\* The whole document as line 395 trims it
TrimDocument(d) == RStrip(d)

\* parts of lines 366-391
Parts(c, hmeta, hbody, blocks, words) ==
    (IF c.title_page /\ ~hmeta.absent THEN <<render_title_page(hmeta.meta, words)>> ELSE <<>>)
       \o (IF c.include_header /\ hbody # <<>> /\ TrimHeader(hbody) # <<>>
           THEN <<TrimHeader(hbody) \o <<NL, NL>>>>
           ELSE <<>>)
       \o WithBreaks(blocks, 0, c.chapter_break)

\* compiled of line 395
Compiled(c, hmeta, hbody, blocks, words) ==
    TrimDocument(Join(Parts(c, hmeta, hbody, blocks, words))) \o <<NL>>

\* lines 379-398: the document is composed and written
Compose ==
    /\ cpc = "compose"
    /\ dir_created' = TRUE
    /\ out_file' = [exists |-> TRUE,
                    content |-> Compiled(cfg, header_meta, header_body, chapter_blocks,
                                         manuscript_words)]
    /\ status' = 0
    /\ cpc' = "done"
    /\ UNCHANGED <<tree, cfg, scanned, chapters, ci, si, block_parts, first_scene,
                   chapter_blocks, manuscript_words, header_meta, header_body>>
    /\ UNCHANGED <<pvars, wvars>>

NextCompile ==
    \/ CompileRootMissing
    \/ CompileCollect
    \/ ChapterSkip
    \/ ChapterBegin
    \/ SceneEmpty
    \/ SceneAppend
    \/ ChapterEnd
    \/ HeaderAbsent
    \/ HeaderRead
    \/ HeaderParsed
    \/ Compose
    \/ MainBlank
    \/ MainKeyBlock
    \/ BlockBlank
    \/ BlockAppend
    \/ BlockEnd
    \/ MainKeyEmpty
    \/ LookBlank
    \/ LookItem
    \/ LookNoList
    \/ ItemsBlank
    \/ ItemsAppend
    \/ ItemsEnd
    \/ MainKeyScalar
    \/ MainSkip
    \/ MainExit

\* compile_manuscript on the snapshots and arguments of Inputs
SpecCompile == Init /\ [][NextCompile]_vars

(***************************************************************************)
(* Claims on collect_structure and compile_manuscript.                     *)
(***************************************************************************)
\* The run wrote its document
Wrote == cpc = "done" /\ status = 0

RECURSIVE SceneParts(_, _, _, _)
\* block_parts once the scenes of lines 349-361 are added to parts
SceneParts(parts, first, scenes, sep) ==
    IF scenes = <<>> THEN parts
    ELSE IF SceneBody(Head(scenes)) = <<>> THEN SceneParts(parts, first, Tail(scenes), sep)
    ELSE SceneParts(AddScene(parts, first, SceneBody(Head(scenes)), sep), FALSE,
                    Tail(scenes), sep)

RECURSIVE Blocks(_, _, _)
\* chapter_blocks once the chapters of lines 341-363 are added to blocks
Blocks(blocks, chs, c) ==
    IF chs = <<>> THEN blocks
    ELSE IF Head(chs).scenes = <<>> THEN Blocks(blocks, Tail(chs), c)
    ELSE Blocks(AddBlock(blocks,
                         SceneParts(HeadingParts(Head(chs), c.chapter_heading), TRUE,
                                    Head(chs).scenes, c.scene_sep)),
                Tail(chs), c)

RECURSIVE WordsOf(_)
\* The words of the scenes with a body
WordsOf(scenes) ==
    IF scenes = <<>> THEN 0
    ELSE count_words(SceneBody(Head(scenes))) + WordsOf(Tail(scenes))

RECURSIVE WordsIn(_)
\* manuscript_words for the chapters
WordsIn(chs) ==
    IF chs = <<>> THEN 0
    ELSE WordsOf(Head(chs).scenes) + WordsIn(Tail(chs))

\* The document compile_manuscript writes for the chapters chs
DocumentOf(chs) ==
    Compiled(cfg, header_meta, header_body, Blocks(<<>>, chs, cfg), WordsIn(chs))

\* The document written is the one the chapters collected give
WrittenIsDocumentOfChapters == Wrote => out_file.content = DocumentOf(chapters)

\* The chapters but the n-th
Without(chs, n) == SubSeq(chs, 1, n - 1) \o SubSeq(chs, n + 1, Len(chs))

\* A chapter that has scenes, all of them without a body
OnlyEmptyScenes(ch) ==
    /\ ch.scenes # <<>>
    /\ \A n \in 1..Len(ch.scenes) : SceneBody(ch.scenes[n]) = <<>>

\* C1: under every heading style and every chapter-break style, a chapter all
\* of whose scenes are empty once metadata is stripped and whitespace trimmed
\* contributes nothing: the document written is the one written for the same
\* chapters without it (stated where another chapter remains).
C1_EmptyChapterContributesNothing ==
    Wrote =>
        \A n \in 1..Len(chapters) :
            (OnlyEmptyScenes(chapters[n]) /\ Len(chapters) > 1)
                => out_file.content = DocumentOf(Without(chapters, n))

\* C2: in every chapter collected, the scenes are ordered by (scene number,
\* then filename), whatever chapter number their filenames embed.
C2_ScenesOrderedBySceneNumber ==
    scanned =>
        \A n \in 1..Len(chapters) :
            \A a, b \in 1..Len(chapters[n].scenes) :
                a < b =>
                    LET x == chapters[n].scenes[a]
                        y == chapters[n].scenes[b]
                    IN \/ x.scene_num < y.scene_num
                       \/ x.scene_num = y.scene_num /\ StrLess(x.name, y.name)

\* The snapshot holds a chapter folder with a scene file
HasStructure(t) ==
    \E e \in t.entries :
        /\ e.is_dir /\ MatchesChapterDir(e.name)
        /\ \E f \in e.files : MatchesSceneFile(f.name)

\* C6: when the root exists and the snapshot holds no chapter folder with a
\* scene file, the run ends with the structure-not-found status, writes no
\* file and creates no directory; the root-not-found status is another one
\* and is given before any scan.
C6_NoStructureNothingWritten ==
    cpc = "done" =>
        /\ (tree.exists /\ ~HasStructure(tree))
              => (status = 1 /\ ~out_file.exists /\ ~dir_created)
        /\ ~tree.exists => (status = 2 /\ ~scanned /\ ~out_file.exists)

\* C7: the document written is trimmed at both ends: it starts with a
\* character that is not whitespace whenever it has one, and it ends with
\* exactly one newline.
C7_DocumentTrimmedBothEnds ==
    Wrote =>
        LET d == out_file.content IN
        /\ d # <<>> /\ d[Len(d)] = NL
        /\ Len(d) > 1 => d[Len(d) - 1] \notin WhiteSpace
        /\ (\E n \in 1..Len(d) : d[n] \notin WhiteSpace) => d[1] \notin WhiteSpace

\* C8: every order of enumeration of the same snapshot gives the chapters
\* collected, with the same scenes in each.
C8_SameStructureInEveryOrder ==
    (scanned /\ cpc = "chapters" /\ ci = 0) =>
        \A listing \in Listings(tree), globbed \in Globbings(tree) :
            collect_structure(listing, globbed) = chapters

RECURSIVE Bodies(_, _)
\* The trimmed bodies that are not empty, among the first n scenes
Bodies(scenes, n) ==
    IF n = 0 THEN <<>>
    ELSE Bodies(scenes, n - 1)
            \o (IF SceneBody(scenes[n]) # <<>> THEN <<SceneBody(scenes[n])>> ELSE <<>>)

RECURSIVE Separated(_, _)
\* The bodies, each followed by a blank line, one separator before each but the first
Separated(bodies, sep) ==
    IF bodies = <<>> THEN <<>>
    ELSE IF Len(bodies) = 1 THEN <<bodies[1] \o <<NL, NL>>>>
    ELSE Separated(SubSeq(bodies, 1, Len(bodies) - 1), sep)
            \o <<sep, bodies[Len(bodies)] \o <<NL, NL>>>>

RECURSIVE SumOfCounts(_)
\* The sum of the word counts of the bodies
SumOfCounts(bodies) ==
    IF bodies = <<>> THEN 0
    ELSE count_words(Head(bodies)) + SumOfCounts(Tail(bodies))

RECURSIVE BodiesUpTo(_, _)
\* The trimmed bodies that are not empty, in the first n chapters
BodiesUpTo(chs, n) ==
    IF n = 0 THEN <<>>
    ELSE BodiesUpTo(chs, n - 1) \o Bodies(chs[n].scenes, Len(chs[n].scenes))

\* The parts of the block after the heading
AfterHeading ==
    SubSeq(block_parts, Len(HeadingParts(Chapter, cfg.chapter_heading)) + 1, Len(block_parts))

\* C11: while a chapter block is built, after any number of its scenes: the
\* parts after the heading are the non-empty trimmed bodies met so far, with
\* no separator before the first and exactly one configured separator before
\* each later one (k bodies, k - 1 separators); an empty scene adds neither a
\* part nor a word; the word total is the sum of the counts of the non-empty
\* trimmed bodies met so far.
C11_SeparatorsAndWordTotal ==
    cpc = "scenes" =>
        LET met == Bodies(Chapter.scenes, si)
            k == Len(met)
        IN /\ AfterHeading = Separated(met, render_scene_separator(cfg.scene_sep))
           /\ Len(AfterHeading) = (IF k = 0 THEN 0 ELSE 2 * k - 1)
           /\ first_scene = (k = 0)
           /\ manuscript_words = SumOfCounts(BodiesUpTo(chapters, ci)) + SumOfCounts(met)

\* C11 witness: a block of a scene, a scene without a body and a scene of two
\* words is built: two bodies, one separator, three words
C11_GapBetweenTwoScenes ==
    /\ cpc = "scenes" /\ si = 3
    /\ Len(Bodies(Chapter.scenes, 3)) = 2
    /\ SceneBody(Chapter.scenes[2]) = <<>>
    /\ block_parts[Len(block_parts) - 1] = render_scene_separator(cfg.scene_sep)
    /\ cfg.scene_sep = <<"~">>
    /\ manuscript_words = 3

(***************************************************************************)
(* Claim on strip_yaml_front_matter against parse_front_matter.            *)
(***************************************************************************)
\* C12: for every text, strip_yaml_front_matter of compile_manuscript.py and
\* of word_count.py both return the body that parse_front_matter returns,
\* whether the block is absent, unterminated, terminated by '---' or '...',
\* or terminated with no key parsed.
C12_StripIsParsedBody ==
    pc = "done" =>
        /\ strip_yaml_front_matter(text) = result.body
        /\ wc_strip_yaml_front_matter(text) = result.body

\* C12 witness: a block after a byte-order mark, terminated by '...', with no
\* key parsed, was removed by the parser, which returned the rest as body
C12_DotsBlockWithoutKeys ==
    /\ pc = "done"
    /\ text # <<>> /\ Head(text) = BOM
    /\ \E n \in 2..Len(RawLines(text)) :
          /\ RawLines(text)[n] = Dots
          /\ \A m \in 2..(n - 1) : Strip(RawLines(text)[m]) \notin {Delim, Dots}
    /\ result.absent
    /\ result.body = <<"B", NL, "-", "-", "-", NL, "y">>
    /\ Len(yaml_lines) = 2

=============================================================================
